---- MODULE Spec2Model ----
(***************************************************************************)
(* Calorie_Counter: a Telegram bot that sends food descriptions to a       *)
(* generative model (gemini_client.py), logs the parsed nutrition record   *)
(* to a Google Sheet (gsheets_client.py) and answers date-range queries    *)
(* over that sheet (telegram_bot.py).                                      *)
(*                                                                         *)
(* The sheet is the only persistent state.  Every handler runs to its end  *)
(* before the next one starts in SpecRouter and SpecClient; the external   *)
(* calls a handler makes (model round trip, sheet calls, file downloads)   *)
(* succeed or raise as chosen by the environment.  SpecConcurrent runs     *)
(* several append_food_entry calls at once, one sheet call per step.       *)
(***************************************************************************)
EXTENDS Integers, Sequences, FiniteSets, TLC

VARIABLES
    store,        \* the sheet as get_all_values() returns it: rows of six
                  \* cells, every cell a string, <<>> for an empty sheet
    tempFile,     \* the temporary audio file of that request: "none" when it
                  \* created none, else "exists" or "removed"
    reqKind,      \* the request handled last
    replies,      \* the reply_text calls of that request, in order
    raisedAt,     \* the call whose exception left the handler, or "none"
    analyzerOut,  \* what analyze_content / parse_query returned in that request
    appendCalls,  \* the append_food_entry calls of that request
    readCalls,    \* the get_entries_by_date_range calls of that request
    prevStore,    \* the sheet when that request started
    initStore,    \* the sheet the run started from
    okAppends,    \* how many append_food_entry calls returned True so far
    tasks         \* the concurrent append_food_entry calls: where each one
                  \* stands, its argument, its local all_values and its
                  \* return value

vars == <<store, tempFile, reqKind, replies, raisedAt, analyzerOut,
          appendCalls, readCalls, prevStore, initStore, okAppends, tasks>>

(***************************************************************************)
(* Bounds of the model.                                                    *)
(***************************************************************************)
MaxRows == 3          \* the program appends only while the sheet is shorter
NumTasks == 2         \* append_food_entry calls that run at the same time

(***************************************************************************)
(* Python / JSON values.  None and JSON null are the same value.           *)
(***************************************************************************)
None == [t |-> "null"]
JInt(n) == [t |-> "int", n |-> n]
JStr(s) == [t |-> "str", s |-> s]
JArr(k) == [t |-> "arr", len |-> k]
JObj(f) == [t |-> "obj", f |-> f]

\* Python truth value: `not x` is ~Truthy(x).
Truthy(v) ==
    CASE v.t = "null" -> FALSE
      [] v.t = "int" -> v.n # 0
      [] v.t = "str" -> v.s # ""
      [] v.t = "arr" -> v.len > 0
      [] v.t = "obj" -> DOMAIN v.f # {}

\* Only a dict has .get; on anything else the call raises AttributeError.
HasGet(v) == v.t = "obj"

\* dict.get(key, default): the default is used only when the key is absent.
Get(d, key, default) == IF key \in DOMAIN d.f THEN d.f[key] ELSE default

(***************************************************************************)
(* Conversions between integers and their decimal strings.                 *)
(***************************************************************************)
IntStrings ==
    { <<0, "0">>, <<3, "3">>, <<25, "25">>, <<50, "50">>, <<95, "95">>,
      <<100, "100">> }

\* str(n), as the sheet shows a number cell.
IntToStr(n) == (CHOOSE p \in IntStrings : p[1] = n)[2]

\* int(s) of a cell: surrounding blanks are accepted, everything that is not
\* a decimal integer raises ValueError.
StripBlanks(s) == IF s = " 50 " THEN "50" ELSE s

int(s) ==
    LET u == StripBlanks(s) IN
    IF \E p \in IntStrings : p[2] = u
    THEN [ok |-> TRUE, n |-> (CHOOSE p \in IntStrings : p[2] = u)[1]]
    ELSE [ok |-> FALSE, n |-> 0]

(***************************************************************************)
(* Dates: <<year, month, day>>, compared as datetime.date compares.        *)
(***************************************************************************)
DateLE(a, b) ==
    \/ a[1] < b[1]
    \/ a[1] = b[1] /\ a[2] < b[2]
    \/ a[1] = b[1] /\ a[2] = b[2] /\ a[3] <= b[3]

\* The strings datetime.now().strftime("%Y-%m-%d %H:%M:%S") produces here.
Timestamps == { "2024-02-01 09:15:00", "2024-02-02 00:00:00" }

\* strptime(s, "%Y-%m-%d %H:%M:%S").date(); anything else raises ValueError.
DateTimeStrings ==
    { <<"2024-01-31 08:00:00", <<2024, 1, 31>> >>,
      <<"2024-01-31 23:59:59", <<2024, 1, 31>> >>,
      <<"2024-02-01 09:15:00", <<2024, 2, 1>> >>,
      <<"2024-2-1 7:05:00", <<2024, 2, 1>> >>,
      <<"2024-02-02 00:00:00", <<2024, 2, 2>> >> }

strptime_datetime(s) ==
    IF \E p \in DateTimeStrings : p[1] = s
    THEN [ok |-> TRUE, d |-> (CHOOSE p \in DateTimeStrings : p[1] = s)[2]]
    ELSE [ok |-> FALSE, d |-> <<0, 0, 0>>]

\* strptime(s, "%Y-%m-%d").date()
DateStrings ==
    { <<"2024-01-31", <<2024, 1, 31>> >>,
      <<"2024-02-01", <<2024, 2, 1>> >>,
      <<"2024-02-02", <<2024, 2, 2>> >> }

strptime_date(s) ==
    IF \E p \in DateStrings : p[1] = s
    THEN [ok |-> TRUE, d |-> (CHOOSE p \in DateStrings : p[1] = s)[2]]
    ELSE [ok |-> FALSE, d |-> <<0, 0, 0>>]

(***************************************************************************)
(* gsheets_client.py                                                       *)
(***************************************************************************)
expected_header ==
    <<"Date", "Food Item", "Calories", "Protein (g)", "Carbs (g)", "Fat (g)">>

\* How each sheet call of one operation ends: all succeed, open_by_key raises
\* SpreadsheetNotFound, or the named call raises another gspread/network error.
AppendEnv ==
    { "ok", "not_found", "open_error", "read_error", "header_write_error",
      "row_write_error" }
ReadEnv == { "ok", "not_found", "open_error", "read_error" }

\* get_gsheets_client(): the client, or None when the credentials file is
\* missing or authorisation fails.
ClientEnv == { "client", "no_client" }

get_gsheets_client(env) == env = "client"

\* The cell the sheet shows for a value handed to append_row: a number as its
\* decimal string, None as an empty cell.
ToCell(v) ==
    CASE v.t = "str" -> v.s
      [] v.t = "int" -> IntToStr(v.n)
      [] OTHER -> ""

\* sheet.append_row(values): one row after the last one.
append_row(st, values) == Append(st, [i \in 1..Len(values) |-> ToCell(values[i])])

\* HeaderCheck with the header written whenever the sheet has no data row yet.
HeaderCheck_no_data_rows(all_values) ==
    IF all_values = <<>> THEN "write"
    ELSE IF all_values[1] # expected_header THEN "incorrect"
    ELSE IF Len(all_values) = 1 THEN "write"
    ELSE "present"

\* HeaderCheck with a wrong first row repaired by writing the header.
HeaderCheck_repair(all_values) ==
    IF all_values = <<>> THEN "write"
    ELSE IF all_values[1] # expected_header THEN "write"
    ELSE "present"

\* The header check of append_food_entry: an empty sheet gets the header
\* written, a first row other than the header ends the call.
HeaderCheck(all_values) ==
    IF all_values = <<>> THEN "write"
    ELSE IF all_values[1] # expected_header THEN "incorrect"
    ELSE "present"

AppendResult(ok, st, row, log) == [ok |-> ok, store |-> st, row |-> row, log |-> log]

\* append_food_entry(client, food_data) at time `now`: the returned bool, the
\* sheet afterwards, the row_to_insert handed to append_row (<<>> if none) and
\* the error that was logged.
append_food_entry(st, food_data, now, env) ==
    IF env = "not_found" THEN AppendResult(FALSE, st, <<>>, "not_found")
    ELSE IF env \in {"open_error", "read_error"}
    THEN AppendResult(FALSE, st, <<>>, "exception")
    ELSE LET all_values == st IN
    IF HeaderCheck(all_values) = "write" /\ env = "header_write_error"
    THEN AppendResult(FALSE, st, <<>>, "exception")
    ELSE IF HeaderCheck(all_values) = "incorrect"
    THEN AppendResult(FALSE, st, <<>>, "header_incorrect")
    ELSE
    LET st1 == IF HeaderCheck(all_values) = "write"
               THEN Append(st, expected_header)
               ELSE st
        macros == Get(food_data, "macros", JObj(<<>>))
    IN  IF ~HasGet(macros)
        THEN \* None.get(...) raises AttributeError inside the try
             AppendResult(FALSE, st1, <<>>, "exception")
        ELSE
        LET row_to_insert ==
                << JStr(now),
                   Get(food_data, "food_item", JStr("N/A")),
                   Get(food_data, "calories", JStr("N/A")),
                   Get(macros, "protein", JStr("N/A")),
                   Get(macros, "carbohydrates", JStr("N/A")),
                   Get(macros, "fat", JStr("N/A")) >>
        IN  IF env = "row_write_error"
            THEN AppendResult(FALSE, st1, row_to_insert, "exception")
            ELSE AppendResult(TRUE, append_row(st1, row_to_insert),
                              row_to_insert, "none")

\* dict(zip(header, row))
Min(a, b) == IF a < b THEN a ELSE b

ZipDict(header, row) ==
    LET n == Min(Len(header), Len(row)) IN
    [k \in {header[i] : i \in 1..n} |->
        row[CHOOSE i \in 1..n : header[i] = k /\ \A j \in (i+1)..n : header[j] # k]]

\* The loop over records of get_entries_by_date_range: a record is kept when
\* its Date is non-empty, parses and lies in [start_date, end_date].
\* KeepRecord with the end of the range excluded.
KeepRecord_exclusive_end(record, start_date, end_date) ==
    LET entry_date_str == IF "Date" \in DOMAIN record THEN record["Date"] ELSE ""
        entry_date == strptime_datetime(entry_date_str)
    IN  IF entry_date_str = "" THEN FALSE
        ELSE IF ~entry_date.ok THEN FALSE
        ELSE DateLE(start_date, entry_date.d) /\ ~DateLE(end_date, entry_date.d)

\* The body of the loop over records: is the record kept?
KeepRecord(record, start_date, end_date) ==
    LET entry_date_str == IF "Date" \in DOMAIN record THEN record["Date"] ELSE ""
        entry_date == strptime_datetime(entry_date_str)
    IN  IF entry_date_str = "" THEN FALSE         \* warning, continue
        ELSE IF ~entry_date.ok THEN FALSE         \* ValueError: warning, continue
        ELSE DateLE(start_date, entry_date.d) /\ DateLE(entry_date.d, end_date)

RECURSIVE FilterEntries(_, _, _)
FilterEntries(records, start_date, end_date) ==
    IF records = <<>> THEN <<>>
    ELSE
    LET record == Head(records)
        rest == FilterEntries(Tail(records), start_date, end_date)
    IN  IF KeepRecord(record, start_date, end_date)
        THEN <<record>> \o rest
        ELSE rest

ReadResult(t, entries, read, log) ==
    [t |-> t, entries |-> entries, read |-> read, log |-> log]

\* get_entries_by_date_range(client, start_date_str, end_date_str): None or
\* the list of kept records; `read` tells whether get_all_values() was called.
get_entries_by_date_range(st, start_date_str, end_date_str, env) ==
    IF start_date_str.t # "str" \/ end_date_str.t # "str"
    THEN ReadResult("None", <<>>, FALSE, "exception")      \* TypeError
    ELSE
    LET start_date == strptime_date(start_date_str.s)
        end_date == strptime_date(end_date_str.s)
    IN  IF ~start_date.ok \/ ~end_date.ok
        THEN ReadResult("None", <<>>, FALSE, "exception")  \* ValueError
        ELSE IF env = "not_found"
        THEN ReadResult("None", <<>>, FALSE, "not_found")
        ELSE IF env \in {"open_error", "read_error"}
        THEN ReadResult("None", <<>>, FALSE, "exception")
        ELSE LET all_values == st IN
        IF all_values = <<>> THEN ReadResult("list", <<>>, TRUE, "none")
        ELSE IF all_values[1] # expected_header
        THEN ReadResult("None", <<>>, TRUE, "header_incorrect")
        ELSE
        LET header == all_values[1]
            records == [i \in 1..(Len(all_values) - 1) |->
                            ZipDict(header, all_values[i + 1])]
        IN  ReadResult("list", FilterEntries(records, start_date.d, end_date.d),
                       TRUE, "none")

(***************************************************************************)
(* gemini_client.py                                                        *)
(***************************************************************************)
\* One round trip to the generative model: generate_content (or the upload or
\* image decoding before it) raises, or the reply is a text, possibly inside
\* a ```json fence, whose body parses as JSON to `value` or does not parse.
ModelReply(raises, fenced, parses, value) ==
    [raises |-> raises, fenced |-> fenced, parses |-> parses, value |-> value]

\* The text left after the ```json prefix and ``` suffix are cut off.
StripFence(response) == [parses |-> response.parses, value |-> response.value]

\* json.loads
json_loads(text) ==
    IF text.parses THEN [ok |-> TRUE, value |-> text.value]
    ELSE [ok |-> FALSE, value |-> None]

\* analyze_content(content): the parsed JSON value whatever its shape, None on
\* JSONDecodeError and on every other exception.
analyze_content(response) ==
    IF response.raises THEN None
    ELSE LET data == json_loads(StripFence(response)) IN
         IF data.ok THEN data.value ELSE None

\* parse_query(user_query): the same discipline.
parse_query(response) ==
    IF response.raises THEN None
    ELSE LET data == json_loads(StripFence(response)) IN
         IF data.ok THEN data.value ELSE None

(***************************************************************************)
(* telegram_bot.py                                                         *)
(***************************************************************************)
\* str(x) inside an f-string
PyStr(v) ==
    CASE v.t = "str" -> v.s
      [] v.t = "int" -> IntToStr(v.n)
      [] v.t = "null" -> "None"
      [] OTHER -> "?"

Msg(m) == [msg |-> m]

Outcome(rep, raised, st, out, appends, reads) ==
    [replies |-> rep, raisedAt |-> raised, store |-> st, analyzerOut |-> out,
     appendCalls |-> appends, readCalls |-> reads]

\* FoodCheck without the test of food_item.
FoodCheck_no_item_test(food_data) ==
    IF ~Truthy(food_data) THEN "unidentified"
    ELSE IF ~HasGet(food_data) THEN "raise"
    ELSE "ok"

\* `if not food_data or not food_data.get('food_item')`: the food is
\* unidentified, or .get raises AttributeError on a value that is no dict.
FoodCheck(food_data) ==
    IF ~Truthy(food_data) THEN "unidentified"
    ELSE IF ~HasGet(food_data) THEN "raise"
    ELSE IF ~Truthy(Get(food_data, "food_item", None)) THEN "unidentified"
    ELSE "ok"

\* process_request(update, content).  env: ack ("ok"/"raise": the first
\* reply_text), response (the model round trip), client, sheet, now.
process_request(st, env) ==
    IF env.ack = "raise"
    THEN Outcome(<<>>, "reply_text", st, None, <<>>, <<>>)
    ELSE
    LET ack == <<Msg("analyzing")>>
        food_data == analyze_content(env.response)
    IN  IF FoodCheck(food_data) = "unidentified"
        THEN Outcome(ack \o <<Msg("could_not_identify")>>, "none", st,
                     food_data, <<>>, <<>>)
        ELSE IF FoodCheck(food_data) = "raise"
        THEN \* caught by the final except
             Outcome(ack \o <<Msg("unexpected_error")>>, "none", st,
                     food_data, <<>>, <<>>)
        ELSE IF ~get_gsheets_client(env.client)
        THEN Outcome(ack \o <<Msg("could_not_connect")>>, "none", st,
                     food_data, <<>>, <<>>)
        ELSE
        LET res == append_food_entry(st, food_data, env.now, env.sheet)
            call == [food_data |-> food_data, env |-> env.sheet, ok |-> res.ok,
                     row |-> res.row, log |-> res.log]
            macros == Get(food_data, "macros", JObj(<<>>))
        IN  IF res.ok
            THEN Outcome(ack \o
                    << [msg |-> "logged",
                        food |-> PyStr(Get(food_data, "food_item", JStr("N/A"))),
                        calories |-> PyStr(Get(food_data, "calories", JStr("N/A"))),
                        protein |-> PyStr(Get(macros, "protein", JStr("N/A"))),
                        carbs |-> PyStr(Get(macros, "carbohydrates", JStr("N/A"))),
                        fat |-> PyStr(Get(macros, "fat", JStr("N/A")))] >>,
                    "none", res.store, food_data, <<call>>, <<>>)
            ELSE Outcome(ack \o <<Msg("failed_to_log")>>, "none", res.store,
                         food_data, <<call>>, <<>>)

\* int(entry.get(key, 0))
EntryInt(entry, key) ==
    IF key \in DOMAIN entry THEN int(entry[key]) ELSE [ok |-> TRUE, n |-> 0]

\* One pass of the aggregation loop body: the four += run in order and the
\* first ValueError leaves the try, after which the entry is logged as skipped.
AddEntry(acc, entry) ==
    LET c == EntryInt(entry, "Calories")
        p == EntryInt(entry, "Protein (g)")
        b == EntryInt(entry, "Carbs (g)")
        f == EntryInt(entry, "Fat (g)")
        skip(a) == [a EXCEPT !.skipped = @ + 1]
        a1 == [acc EXCEPT !.calories = @ + c.n]
        a2 == [a1 EXCEPT !.protein = @ + p.n]
        a3 == [a2 EXCEPT !.carbs = @ + b.n]
        a4 == [a3 EXCEPT !.fat = @ + f.n]
    IN  IF ~c.ok THEN skip(acc)
        ELSE IF ~p.ok THEN skip(a1)
        ELSE IF ~b.ok THEN skip(a2)
        ELSE IF ~f.ok THEN skip(a3)
        ELSE [a4 EXCEPT !.items =
                Append(@, IF "Food Item" \in DOMAIN entry
                          THEN entry["Food Item"] ELSE "Unknown Item")]

RECURSIVE Aggregate(_, _)
Aggregate(entries, acc) ==
    IF entries = <<>> THEN acc
    ELSE Aggregate(Tail(entries), AddEntry(acc, Head(entries)))

ZeroTotals ==
    [calories |-> 0, protein |-> 0, carbs |-> 0, fat |-> 0, items |-> <<>>,
     skipped |-> 0]

\* handle_query(update, context).  The field `skipped` of the summary is the
\* number of "Skipping entry" warnings logged; the text sent holds the four
\* totals and the items.  env: ack ("ok"/"raise": the first
\* reply_text), response (the model round trip), client, sheet.
handle_query(st, env) ==
    IF env.ack = "raise"
    THEN Outcome(<<>>, "reply_text", st, None, <<>>, <<>>)
    ELSE
    LET ack == <<Msg("thinking")>>
        date_range == parse_query(env.response)
    IN  IF ~Truthy(date_range)
        THEN Outcome(ack \o <<Msg("could_not_understand_date_range")>>, "none",
                     st, date_range, <<>>, <<>>)
        ELSE IF ~HasGet(date_range)
        THEN Outcome(ack \o <<Msg("unexpected_error")>>, "none", st,
                     date_range, <<>>, <<>>)
        ELSE IF \/ ~Truthy(Get(date_range, "start_date", None))
                \/ ~Truthy(Get(date_range, "end_date", None))
        THEN Outcome(ack \o <<Msg("could_not_understand_date_range")>>, "none",
                     st, date_range, <<>>, <<>>)
        ELSE
        LET start_date == date_range.f["start_date"]
            end_date == date_range.f["end_date"]
        IN  IF ~get_gsheets_client(env.client)
            THEN Outcome(ack \o <<Msg("could_not_connect")>>, "none", st,
                         date_range, <<>>, <<>>)
            ELSE
            LET res == get_entries_by_date_range(st, start_date, end_date,
                                                 env.sheet)
                call == [start |-> start_date, end |-> end_date,
                         env |-> env.sheet, t |-> res.t,
                         entries |-> res.entries, read |-> res.read,
                         log |-> res.log]
                tot == Aggregate(res.entries, ZeroTotals)
            IN  IF res.t = "None"
                THEN Outcome(ack \o <<Msg("read_error")>>, "none", st,
                             date_range, <<>>, <<call>>)
                ELSE IF res.entries = <<>>
                THEN Outcome(ack \o <<Msg("no_entries_found")>>, "none", st,
                             date_range, <<>>, <<call>>)
                ELSE Outcome(ack \o
                        << [msg |-> "summary",
                            date_header |-> IF start_date # end_date
                                            THEN "from_to" ELSE "for",
                            calories |-> tot.calories,
                            protein |-> tot.protein,
                            carbs |-> tot.carbs,
                            fat |-> tot.fat,
                            items |-> tot.items,
                            skipped |-> tot.skipped] >>,
                        "none", st, date_range, <<>>, <<call>>)

(***************************************************************************)
(* Inputs.                                                                 *)
(***************************************************************************)
Macros(p, c, f) == JObj([protein |-> p, carbohydrates |-> c, fat |-> f])

FullApple ==
    JObj([food_item |-> JStr("Apple"), calories |-> JInt(95),
          macros |-> Macros(JInt(0), JInt(25), JInt(0))])
AllNull ==
    JObj([food_item |-> None, calories |-> None,
          macros |-> Macros(None, None, None)])
AllNullFlat == JObj([food_item |-> None, calories |-> None, macros |-> None])
NullCalories ==
    JObj([food_item |-> JStr("Apple"), calories |-> None,
          macros |-> Macros(JInt(0), JInt(25), JInt(0))])
NullMacros ==
    JObj([food_item |-> JStr("Apple"), calories |-> JInt(95), macros |-> None])
OnlyName == JObj([food_item |-> JStr("Toast")])

FoodRecords == { FullApple, AllNull, AllNullFlat, NullCalories, NullMacros, OnlyName }

\* JSON the model may answer with that is not a nutrition record.
OtherJson == { JArr(0), JArr(1), JStr("an apple"), JInt(3), None }

Garbage == ModelReply(FALSE, FALSE, FALSE, None)
Raising == ModelReply(TRUE, FALSE, FALSE, None)

AnalyzerReplies ==
    { Raising, Garbage, ModelReply(FALSE, TRUE, TRUE, FullApple) }
    \cup { ModelReply(FALSE, FALSE, TRUE, v) :
             v \in (FoodRecords \ {OnlyName}) \cup OtherJson }

DateRange(s, e) == JObj([start_date |-> s, end_date |-> e])

DateInputs == { JStr(p[1]) : p \in DateStrings }

QueryValues ==
    { DateRange(JStr("2024-01-31"), JStr("2024-01-31")),
      DateRange(JStr("2024-01-31"), JStr("2024-02-02")),
      DateRange(JStr("2024-02-01"), JStr("2024-02-02")),
      DateRange(JStr("2024-02-02"), JStr("2024-01-31")),
      DateRange(JStr("2024-02-02"), JStr("2024-02-01")) }
    \cup { DateRange(None, None),
           DateRange(JStr("2024-02-01"), None),
           DateRange(None, JStr("2024-02-01")),
           DateRange(JStr("July 1"), JStr("July 5")),
           JObj([start_date |-> JStr("2024-02-01")]),
           JArr(1), None }

QueryReplies ==
    { Raising, Garbage,
      ModelReply(FALSE, TRUE, TRUE, DateRange(JStr("2024-02-01"), JStr("2024-02-01"))) }
    \cup { ModelReply(FALSE, FALSE, TRUE, v) : v \in QueryValues }

\* The environment of one process_request.  A choice is enumerated only where
\* the code gets to consult it: the client after a usable record, the sheet
\* after a client, the clock once the header check passed.  The handlers all
\* run at one time of day; the calls of append_food_entry on its own below
\* run at every time of Timestamps.
ProcessEnv(ack, response, client, sheet, now) ==
    [ack |-> ack, response |-> response, client |-> client, sheet |-> sheet,
     now |-> now]

Usable(response) == FoodCheck(analyze_content(response)) = "ok"

ProcessEnvs ==
    { ProcessEnv("raise", Raising, "no_client", "ok", "") }
    \cup { ProcessEnv("ok", r, "no_client", "ok", "") : r \in AnalyzerReplies }
    \cup { ProcessEnv("ok", r, "client", e, "") :
             r \in {x \in AnalyzerReplies : Usable(x)},
             e \in AppendEnv \ {"ok", "row_write_error"} }
    \cup { ProcessEnv("ok", r, "client", e, now) :
             r \in {x \in AnalyzerReplies : Usable(x)},
             e \in {"ok", "row_write_error"}, now \in {"2024-02-01 09:15:00"} }

\* The environment of one handle_query, enumerated the same way.
QueryEnv(ack, response, client, sheet) ==
    [ack |-> ack, response |-> response, client |-> client, sheet |-> sheet]

HasRange(response) ==
    LET v == parse_query(response) IN
    /\ v.t = "obj" /\ {"start_date", "end_date"} \subseteq DOMAIN v.f
    /\ v.f["start_date"].t = "str" /\ v.f["end_date"].t = "str"

QueryEnvs ==
    { QueryEnv("raise", Raising, "no_client", "ok") }
    \cup { QueryEnv("ok", r, "no_client", "ok") : r \in QueryReplies }
    \cup { QueryEnv("ok", r, "client", e) :
             r \in {x \in QueryReplies : HasRange(x)}, e \in ReadEnv }

\* The calls of append_food_entry on its own: every record with the sheet
\* answering, one record with each sheet call failing.
AppendInputs ==
    [food_data : FoodRecords \ {AllNull}, now : Timestamps,
     env : {"ok", "row_write_error"}]
    \cup [food_data : {FullApple}, now : {"2024-02-01 09:15:00"},
          env : AppendEnv \ {"ok", "row_write_error"}]

\* The calls of get_entries_by_date_range on its own: every pair of dates with
\* the sheet answering, one pair with each sheet call failing, and bounds that
\* are not dates.
ReadInputs ==
    [start : DateInputs, end : DateInputs, env : {"ok"}]
    \cup [start : {JStr("2024-01-31")}, end : {JStr("2024-02-02")},
          env : ReadEnv \ {"ok"}]
    \cup [start : {JStr("July 1")}, end : {JStr("2024-02-02")}, env : {"ok"}]
    \cup [start : {JStr("2024-01-31")}, end : {JStr("July 5")}, env : {"ok"}]

\* Rows a sheet may already hold: written by earlier runs or typed by hand.
Oats == <<"2024-01-31 08:00:00", "Oats", "100", "3", "25", "3">>
Mystery == <<"2024-02-01 09:15:00", "Mystery", "bad", "3", "25", "0">>
Soup == <<"2024-2-1 7:05:00", "Soup", "50", "N/A", "25", "3">>
Ghost == <<"", "Ghost", "50", "3", "25", "3">>
Pie == <<"yesterday", "Pie", "100", "3", "50", "25">>
Tea == <<"2024-01-31 23:59:59", "Tea", " 50 ", "0", "0", "">>
Rice == <<"2024-02-02 00:00:00", "Rice", "95", "3", "25", "0">>

\* First rows that are not the expected header: fewer columns (padded by
\* get_all_values), other case, other order.
WrongHeaders ==
    { <<"Date", "Food", "", "", "", "">>,
      <<"date", "food item", "calories", "protein (g)", "carbs (g)", "fat (g)">>,
      <<"Food Item", "Date", "Calories", "Protein (g)", "Carbs (g)", "Fat (g)">> }

\* The append_food_entry calls that may run at the same time.
Tasks == 1..NumTasks

\* A call that has not been made yet.
IdleTask ==
    [pc |-> "idle", food_data |-> None, all_values |-> <<>>, ret |-> "none"]

\* The sheets a run may start from.  (A sheet holding only the header is
\* reached from the empty one.)
InitStores ==
    { <<>>,
      <<expected_header, Oats>>,
      <<expected_header, Pie>>,
      <<expected_header, Oats, Pie, Mystery>>,
      <<expected_header, Rice, Ghost, Tea>>,
      <<expected_header, Soup, Oats, Rice>>,
      <<Oats, Rice>> }
    \cup { <<h>> : h \in WrongHeaders }
    \cup { <<h, Oats>> : h \in WrongHeaders }

(***************************************************************************)
(* The state machine.                                                      *)
(***************************************************************************)
Init ==
    /\ store \in InitStores
    /\ tempFile = "none"
    /\ reqKind = "none"
    /\ replies = <<>>
    /\ raisedAt = "none"
    /\ analyzerOut = None
    /\ appendCalls = <<>>
    /\ readCalls = <<>>
    /\ prevStore = store
    /\ initStore = store
    /\ okAppends = 0
    /\ tasks = [p \in Tasks |-> IdleTask]

\* The state after a request of kind `kind` ended with outcome `outcome`; the
\* sheet grows only up to MaxRows rows.
Finish(kind, outcome) ==
    \E out \in {outcome} :
    /\ out.store # store => Len(out.store) <= MaxRows
    /\ reqKind' = kind
    /\ replies' = out.replies
    /\ raisedAt' = out.raisedAt
    /\ analyzerOut' = out.analyzerOut
    /\ appendCalls' = out.appendCalls
    /\ readCalls' = out.readCalls
    /\ prevStore' = store
    /\ store' = out.store
    /\ initStore' = initStore
    /\ okAppends' = okAppends + Cardinality({i \in 1..Len(out.appendCalls) :
                                              out.appendCalls[i].ok})
    /\ tasks' = tasks

\* An exception of call `at` that leaves the handler before any reply.
Raised(st, at) == Outcome(<<>>, at, st, None, <<>>, <<>>)

\* start: the welcome message.
Start ==
    /\ Finish("start", Outcome(<<Msg("welcome")>>, "none", store, None, <<>>, <<>>))
    /\ tempFile' = "none"

\* handle_text
HandleText ==
    \E env \in ProcessEnvs :
        /\ Finish("text", process_request(store, env))
        /\ tempFile' = "none"

\* handle_photo: get_file and download_to_memory run before process_request,
\* outside any try.
HandlePhoto ==
    /\ \/ \E at \in {"get_file", "download_to_memory"} :
            Finish("photo", Raised(store, at))
       \/ \E env \in ProcessEnvs :
            Finish("photo", process_request(store, env))
    /\ tempFile' = "none"

\* handle_audio: get_file, then the temporary file is created (delete=False)
\* and filled, then process_request runs inside try/finally os.remove.
HandleAudio ==
    \/ \* get_file raises: no file was created yet
       /\ Finish("audio", Raised(store, "get_file"))
       /\ tempFile' = "none"
    \/ \* download_to_drive raises inside the with block: the file was created
       \* with delete=False and the try/finally is never entered
       /\ Finish("audio", Raised(store, "download_to_drive"))
       /\ tempFile' = "exists"
    \/ \* the finally clause removes the file however process_request ends
       \E env \in ProcessEnvs :
        /\ Finish("audio", process_request(store, env))
        /\ tempFile' = "removed"

\* handle_query
HandleQuery ==
    \E env \in QueryEnvs :
        /\ Finish("query", handle_query(store, env))
        /\ tempFile' = "none"

\* A call of append_food_entry on its own.
AppendFoodEntry ==
    \E in \in AppendInputs :
        LET food_data == in.food_data
            res == append_food_entry(store, food_data, in.now, in.env)
        IN
        /\ Finish("append",
                  Outcome(<<>>, "none", res.store, None,
                          << [food_data |-> food_data, env |-> in.env,
                              ok |-> res.ok, row |-> res.row,
                              log |-> res.log] >>, <<>>))
        /\ tempFile' = "none"

\* A call of get_entries_by_date_range on its own.
GetEntriesByDateRange ==
    \E in \in ReadInputs :
        LET s == in.start
            e == in.end
            res == get_entries_by_date_range(store, s, e, in.env)
        IN
        /\ Finish("read",
                  Outcome(<<>>, "none", store, None, <<>>,
                          << [start |-> s, end |-> e, env |-> in.env, t |-> res.t,
                              entries |-> res.entries, read |-> res.read,
                              log |-> res.log] >>))
        /\ tempFile' = "none"

\* The handlers run_polling dispatches to.
NextRouter ==
    \/ Start
    \/ HandleText
    \/ HandlePhoto
    \/ HandleAudio
    \/ HandleQuery

SpecRouter == Init /\ [][NextRouter]_vars

\* The two operations of the sheet client, called on their own.
NextClient ==
    \/ AppendFoodEntry
    \/ GetEntriesByDateRange

SpecClient == Init /\ [][NextClient]_vars

(***************************************************************************)
(* Concurrent calls of append_food_entry.  Each sheet call is one atomic   *)
(* step; between two steps of one call the other calls may take steps.     *)
(***************************************************************************)
\* The variables the concurrent calls leave alone.
requestVars == <<tempFile, reqKind, replies, raisedAt, analyzerOut,
                 appendCalls, readCalls, prevStore, initStore>>

\* The call of task p returns `ok`.
Return(p, ok) ==
    tasks' = [tasks EXCEPT ![p].pc = "done",
                           ![p].ret = IF ok THEN "True" ELSE "False"]

\* append_food_entry(client, food_data) is called.
CallAppend(p) ==
    /\ tasks[p].pc = "idle"
    /\ \E food_data \in {FullApple, NullCalories, NullMacros} :
        tasks' = [tasks EXCEPT ![p].pc = "get_all_values",
                               ![p].food_data = food_data]
    /\ UNCHANGED <<store, okAppends, requestVars>>

\* open_by_key(...).sheet1 and sheet.get_all_values(), then the header check
\* on the local copy: the call goes on to write the header or the row, or
\* returns False (an exception of either call, or a wrong first row).
GetAllValues(p) ==
    /\ tasks[p].pc = "get_all_values"
    /\ \/ \E env \in {"not_found", "open_error", "read_error"} :
            Return(p, FALSE)
       \/ LET all_values == store IN
          IF HeaderCheck(all_values) = "incorrect"
          THEN tasks' = [tasks EXCEPT ![p].pc = "done", ![p].ret = "False",
                                      ![p].all_values = all_values]
          ELSE tasks' = [tasks EXCEPT
                           ![p].pc = IF HeaderCheck(all_values) = "write"
                                     THEN "append_header" ELSE "append_row",
                           ![p].all_values = all_values]
    /\ UNCHANGED <<store, okAppends, requestVars>>

\* sheet.append_row(expected_header), decided on the all_values read before.
AppendHeader(p) ==
    /\ tasks[p].pc = "append_header"
    /\ \/ \* the call raises
          /\ Return(p, FALSE)
          /\ store' = store
       \/ /\ store' = Append(store, expected_header)
          /\ tasks' = [tasks EXCEPT ![p].pc = "append_row"]
    /\ UNCHANGED <<okAppends, requestVars>>

\* row_to_insert is built at time `now` and sheet.append_row(row_to_insert)
\* is called; the call returns True when the row was appended.
AppendRow(p) ==
    /\ tasks[p].pc = "append_row"
    /\ LET food_data == tasks[p].food_data
           macros == Get(food_data, "macros", JObj(<<>>))
       IN  IF ~HasGet(macros)
           THEN \* None.get(...) raises AttributeError inside the try
                /\ Return(p, FALSE)
                /\ UNCHANGED <<store, okAppends>>
           ELSE
           \/ \* the call raises
              /\ Return(p, FALSE)
              /\ UNCHANGED <<store, okAppends>>
           \/ \E now \in Timestamps :
              LET row_to_insert ==
                      << JStr(now),
                         Get(food_data, "food_item", JStr("N/A")),
                         Get(food_data, "calories", JStr("N/A")),
                         Get(macros, "protein", JStr("N/A")),
                         Get(macros, "carbohydrates", JStr("N/A")),
                         Get(macros, "fat", JStr("N/A")) >>
              IN  /\ store' = append_row(store, row_to_insert)
                  /\ okAppends' = okAppends + 1
                  /\ Return(p, TRUE)
    /\ UNCHANGED requestVars

\* The steps of the concurrent calls, interleaved freely.
NextConcurrent ==
    \E p \in Tasks :
        \/ CallAppend(p)
        \/ GetAllValues(p)
        \/ AppendHeader(p)
        \/ AppendRow(p)

SpecConcurrent == Init /\ [][NextConcurrent]_vars

(***************************************************************************)
(* Properties.                                                             *)
(***************************************************************************)
LogKinds == { "text", "photo", "audio" }

LastReply == replies[Len(replies)]

\* A record with food_item present and every field null.
AllFieldsNull(v) ==
    /\ v.t = "obj"
    /\ "food_item" \in DOMAIN v.f
    /\ \A k \in DOMAIN v.f :
        \/ v.f[k] = None
        \/ v.f[k].t = "obj" /\ \A j \in DOMAIN v.f[k].f : v.f[k].f[j] = None

\* C1: on the log path, when analyze_content returned None or a record whose
\* fields are all null, append_food_entry is not called, the sheet is the
\* same as before the request and the reply after the acknowledgement is the
\* "could not identify" message.
C1_NoAppendWithoutFood ==
    ( /\ reqKind \in LogKinds
      /\ raisedAt = "none"
      /\ analyzerOut = None \/ AllFieldsNull(analyzerOut) )
    => /\ appendCalls = <<>>
       /\ store = prevStore
       /\ replies = <<Msg("analyzing"), Msg("could_not_identify")>>

C1_Witness ==
    /\ reqKind = "photo"
    /\ raisedAt = "none"
    /\ analyzerOut = AllNull
    /\ LastReply = Msg("could_not_identify")

\* C2: started on an empty sheet, the sheet is empty or the header alone until
\* the first append returns True, and after n appends that returned True it
\* has n + 1 rows, the header in row 1 and nowhere else; every append that
\* returns True leaves the rows it found (after the header, if the sheet was
\* empty) and adds exactly one row, whose first cell is the time of the call.
C2_HeaderOnceThenRows ==
    /\ initStore = <<>> =>
        IF okAppends = 0
        THEN store \in { <<>>, <<expected_header>> }
        ELSE /\ Len(store) = okAppends + 1
             /\ store[1] = expected_header
             /\ \A i \in 2..Len(store) : store[i] # expected_header
    /\ (reqKind = "append" /\ appendCalls[1].ok) =>
        LET base == IF prevStore = <<>> THEN <<expected_header>> ELSE prevStore IN
        /\ Len(store) = Len(base) + 1
        /\ SubSeq(store, 1, Len(base)) = base
        /\ store[Len(store)][1] \in Timestamps
        /\ store[Len(store)][1] = appendCalls[1].row[1].s

C2_Witness ==
    /\ initStore = <<>>
    /\ okAppends = 2
    /\ reqKind = "append"
    /\ appendCalls[1].ok
    /\ Len(store) = 3

\* A sheet whose first row is non-empty and is not the expected header.
Mismatched(st) ==
    /\ st # <<>>
    /\ st[1] # expected_header
    /\ \E i \in 1..Len(st[1]) : st[1][i] # ""

\* C3: on a sheet whose first row is non-empty and not the expected header,
\* append_food_entry returns False, get_entries_by_date_range returns None,
\* and the sheet is the same after the call as before it.
C3_MismatchFailsWithoutWrite ==
    /\ (reqKind = "append" /\ Mismatched(prevStore)) =>
        ~appendCalls[1].ok /\ store = prevStore
    /\ (reqKind = "read" /\ Mismatched(prevStore)) =>
        readCalls[1].t = "None" /\ store = prevStore

C3_Witness ==
    /\ reqKind = "append"
    /\ Len(prevStore) = 2
    /\ prevStore[1] \in WrongHeaders
    /\ appendCalls[1].env = "ok"
    /\ appendCalls[1].log = "header_incorrect"

\* The record of a data row under the expected header.
RowDict(row) ==
    ("Date" :> row[1]) @@ ("Food Item" :> row[2]) @@ ("Calories" :> row[3])
    @@ ("Protein (g)" :> row[4]) @@ ("Carbs (g)" :> row[5])
    @@ ("Fat (g)" :> row[6])

\* The Date cell parses as a timestamp whose date lies in [a, b].
RowInRange(row, a, b) ==
    /\ row[1] # ""
    /\ strptime_datetime(row[1]).ok
    /\ DateLE(a, strptime_datetime(row[1]).d)
    /\ DateLE(strptime_datetime(row[1]).d, b)

\* C4: with the sheet answering, the expected header in row 1 and two valid
\* bounds, get_entries_by_date_range returns a list: the records of exactly
\* the rows whose Date parses and lies in [start, end], in sheet order; the
\* other rows neither fail the call nor remove a row that is in range.
C4_ReadRangeExact ==
    ( /\ reqKind = "read"
      /\ readCalls[1].env = "ok"
      /\ store # <<>>
      /\ store[1] = expected_header
      /\ strptime_date(readCalls[1].start.s).ok
      /\ strptime_date(readCalls[1].end.s).ok )
    => LET a == strptime_date(readCalls[1].start.s).d
           b == strptime_date(readCalls[1].end.s).d
           entries == readCalls[1].entries
           kept == { i \in 2..Len(store) : RowInRange(store[i], a, b) }
       IN  /\ readCalls[1].t = "list"
           /\ Len(entries) = Cardinality(kept)
           /\ \A i \in kept :
                entries[Cardinality({ j \in kept : j <= i })] = RowDict(store[i])

C4_Witness ==
    /\ reqKind = "read"
    /\ store = <<expected_header, Oats, Pie, Mystery>>
    /\ readCalls[1].t = "list"
    /\ Len(readCalls[1].entries) = 2
    /\ readCalls[1].entries[2] = RowDict(Mystery)

MacroColumns == { "Calories", "Protein (g)", "Carbs (g)", "Fat (g)" }

\* Every macro cell of the entry is an integer.
AllNumeric(entry) == \A k \in MacroColumns : int(entry[k]).ok

\* The sum of column k over the entries whose four macro cells are integers.
RECURSIVE SumNumeric(_, _)
SumNumeric(entries, k) ==
    IF entries = <<>> THEN 0
    ELSE (IF AllNumeric(Head(entries)) THEN int(Head(entries)[k]).n ELSE 0)
         + SumNumeric(Tail(entries), k)

\* C5: in the summary of a query, each total is the sum of its column over
\* exactly the entries whose four macro cells are all integers; an entry with
\* a non-numeric macro cell adds to no total and is one skipped entry.
C5_SkippedRowAddsNothing ==
    (reqKind = "query" /\ replies # <<>> /\ LastReply.msg = "summary") =>
        LET entries == readCalls[1].entries IN
        /\ LastReply.calories = SumNumeric(entries, "Calories")
        /\ LastReply.protein = SumNumeric(entries, "Protein (g)")
        /\ LastReply.carbs = SumNumeric(entries, "Carbs (g)")
        /\ LastReply.fat = SumNumeric(entries, "Fat (g)")
        /\ LastReply.skipped =
            Cardinality({ i \in 1..Len(entries) : ~AllNumeric(entries[i]) })

\* The field k of a record, null when the record or the field is absent.
Field(d, k) == IF d.t = "obj" /\ k \in DOMAIN d.f THEN d.f[k] ELSE None

\* The cell the claim expects for a field.
CellOrNA(v) == IF v = None THEN "N/A" ELSE ToCell(v)

\* C6: the row written by an append that returned True has six cells: the
\* time of the call, then food_item, calories, protein, carbohydrates and fat,
\* each "N/A" when the field is null and the field's value otherwise.
C6_NullStoredAsNA ==
    (reqKind = "append" /\ appendCalls[1].ok) =>
        LET record == appendCalls[1].food_data
            macros == Field(record, "macros")
            row == store[Len(store)]
        IN  /\ Len(row) = 6
            /\ row[1] \in Timestamps
            /\ row[2] = CellOrNA(Field(record, "food_item"))
            /\ row[3] = CellOrNA(Field(record, "calories"))
            /\ row[4] = CellOrNA(Field(macros, "protein"))
            /\ row[5] = CellOrNA(Field(macros, "carbohydrates"))
            /\ row[6] = CellOrNA(Field(macros, "fat"))

\* The kind of store failure a call of the sheet client ended with.
FailureKind(call) ==
    CASE call.log = "not_found" -> "not_found"
      [] call.log = "header_incorrect" -> "header_mismatch"
      [] call.log = "exception" /\ call.env \in {"open_error", "read_error"} ->
            "unreachable"
      [] OTHER -> "none"

\* The same request with the sheet call ending as `sheet`.
SameLogRequest(sheet) ==
    process_request(prevStore,
        ProcessEnv("ok", ModelReply(FALSE, FALSE, TRUE, analyzerOut), "client",
                   sheet, "2024-02-01 09:15:00"))

SameQueryRequest(sheet) ==
    handle_query(prevStore,
        QueryEnv("ok", ModelReply(FALSE, FALSE, TRUE, analyzerOut), "client",
                 sheet))

\* C7: a request that ended with one kind of store failure (unreachable, not
\* found, header mismatch) gets replies that differ from the replies the same
\* request gets when the store fails in another kind, on the log path and on
\* the query path.
C7_DistinctStoreFailureReplies ==
    /\ ( /\ reqKind \in LogKinds
         /\ appendCalls # <<>>
         /\ FailureKind(appendCalls[1]) # "none" )
       => \A sheet \in {"not_found", "open_error"} :
            LET other == SameLogRequest(sheet) IN
            FailureKind(other.appendCalls[1]) # FailureKind(appendCalls[1])
                => other.replies # replies
    /\ ( /\ reqKind = "query"
         /\ readCalls # <<>>
         /\ FailureKind(readCalls[1]) # "none" )
       => \A sheet \in {"not_found", "open_error"} :
            LET other == SameQueryRequest(sheet) IN
            FailureKind(other.readCalls[1]) # FailureKind(readCalls[1])
                => other.replies # replies

\* The replies that only acknowledge a request.
Acknowledgements == { Msg("analyzing"), Msg("thinking") }

\* C8: every text, photo, audio or query request whose handling ended has at
\* least one reply that tells its outcome, whatever raised while it was
\* handled (a reply_text that itself raises aside).
C8_EveryRequestAnswered ==
    (reqKind \in LogKinds \cup {"query"} /\ raisedAt # "reply_text") =>
        \E i \in 1..Len(replies) : replies[i] \notin Acknowledgements

\* C9: on the log path, when what the model sent is not a nutrition record
\* (analysis failed, or the JSON is an array, a string or a number), the
\* reply is the "could not identify" message.
C9_NonRecordIsUnidentified ==
    (reqKind \in LogKinds /\ raisedAt = "none" /\ analyzerOut.t # "obj") =>
        LastReply = Msg("could_not_identify")

\* Both bounds of the range are set.
BoundsSet(range) ==
    /\ Field(range, "start_date") # None
    /\ Field(range, "end_date") # None

\* start_date is after end_date, both being dates.
Reversed(s, e) ==
    /\ s.t = "str" /\ e.t = "str"
    /\ strptime_date(s.s).ok /\ strptime_date(e.s).ok
    /\ ~DateLE(strptime_date(s.s).d, strptime_date(e.s).d)

\* C10: on the query path every call of get_entries_by_date_range has both
\* bounds set and start_date <= end_date; a range with a null bound or with
\* start_date after end_date is answered "could not understand the date
\* range" and get_entries_by_date_range is not called.
C10_OnlyOrderedRangesReachStore ==
    (reqKind = "query" /\ raisedAt = "none") =>
        /\ \A i \in 1..Len(readCalls) :
            /\ readCalls[i].start # None
            /\ readCalls[i].end # None
            /\ ~Reversed(readCalls[i].start, readCalls[i].end)
        /\ ( /\ analyzerOut.t = "obj"
             /\ \/ ~BoundsSet(analyzerOut)
                \/ Reversed(Field(analyzerOut, "start_date"),
                            Field(analyzerOut, "end_date")) )
           => /\ LastReply = Msg("could_not_understand_date_range")
              /\ readCalls = <<>>

\* C11: once an audio request has ended, the temporary file handle_audio
\* created for it no longer exists, whichever way the handling ended:
\* process_request returned or raised, or the download into the file raised.
C11_TempFileRemoved ==
    reqKind = "audio" => tempFile # "exists"

\* Every concurrent call has returned.
AllReturned == \A p \in Tasks : tasks[p].pc = "done"

\* The rows of sheet st other than header rows.
DataRows(st) == {i \in 1..Len(st) : st[i] # expected_header}

\* C12: when concurrent append_food_entry calls, started on an empty sheet or
\* on one with the header in row 1, have all returned, row 1 is the header,
\* no other row is the header, and the sheet holds the data rows it started
\* with plus exactly one per call that returned True.
C12_ConcurrentAppendsKeepLayout ==
    ( /\ AllReturned
      /\ initStore = <<>> \/ initStore[1] = expected_header )
    => /\ store # <<>> =>
            /\ store[1] = expected_header
            /\ \A i \in 2..Len(store) : store[i] # expected_header
       /\ Cardinality(DataRows(store))
            = Cardinality(DataRows(initStore)) + okAppends
       /\ okAppends = Cardinality({p \in Tasks : tasks[p].ret = "True"})

====
